---------------------------- MODULE Spec2Model ----------------------------
(***************************************************************************)
(* Model of the raw-structure projection layer of the peer-connection      *)
(* configuration (batrachia/src/rtc_peerconnection_configure.rs) and of    *)
(* the key/value parameter mirror (src/codec/video_encoder.rs).            *)
(*                                                                         *)
(* The native heap is a sequence of cells; an address is an index into it. *)
(* A cell records what was allocated, with which capacity, and how often   *)
(* it was deallocated, and the heap keeps the order of deallocations.      *)
(***************************************************************************)
EXTENDS Integers, Sequences, FiniteSets, TLC

VARIABLES
    heap,       \* native heap: [cells |-> <<cell>>, log |-> <<freed addresses>>]
    subject,    \* the managed value a projection is applied to (tagged)
    phase,      \* "input", "projected", "panicked" or "released"
    out,        \* the raw mirror produced from subject
    cfgs,       \* the RTCConfiguration objects, by slot
    rets,       \* per slot, the pointers get_raw has returned so far
    pc,         \* per thread, the position inside get_raw
    local       \* per thread, the pointer it holds (local `raw` / return value)

vars == <<heap, subject, phase, out, cfgs, rets, pc, local>>

---------------------------------------------------------------------------
(* Bounds of the model *)

MaxUrls == 2
MaxServers == 2
MaxConfigs == 2
MaxCalls == 2

---------------------------------------------------------------------------
(* Option<T>, pointers, text *)

None == <<>>
Some(x) == <<x>>
IsSome(o) == Len(o) = 1
Unwrap(o) == o[1]

\* std::ptr::null_mut()
Null == 0
\* the non-null, unallocated pointer of a Vec that owns no buffer
Dangling == -1
\* the terminator of a native string
NUL == 0

\* managed strings, as byte sequences: "a", "b" and "a\0"
Texts == { <<97>>, <<98>>, <<97, NUL>> }
OptTexts == {None} \cup {Some(t) : t \in Texts}

SeqsUpTo(S, n) == UNION {[1..k -> S] : k \in 0..n}

---------------------------------------------------------------------------
(* The native heap *)

EmptyHeap == [cells |-> <<>>, log |-> <<>>]

NewAddr(m) == Len(m.cells) + 1

Alloc(m, kind, data, cap) ==
    [m EXCEPT !.cells = Append(@, [kind |-> kind, data |-> data, cap |-> cap,
                                   frees |-> 0, misfreed |-> FALSE])]

\* deallocation of the block at p, given the size the caller believes it has
Dealloc(m, p, cap) ==
    [cells |-> [m.cells EXCEPT ![p].frees = @ + 1,
                               ![p].misfreed = @ \/ (cap # m.cells[p].cap)],
     log |-> Append(m.log, p)]

Addrs(m) == 1..Len(m.cells)
Live(m) == {a \in Addrs(m) : m.cells[a].frees = 0}

\* strlen: the bytes before the first NUL
StrLen(bytes) == (CHOOSE i \in 1..Len(bytes) :
                     bytes[i] = NUL /\ \A j \in 1..(i - 1) : bytes[j] # NUL) - 1

\* the text a native string holds (CStr::from_ptr)
CStrRead(m, p) == SubSeq(m.cells[p].data, 1, StrLen(m.cells[p].data))

---------------------------------------------------------------------------
(* String Bridge (base module) *)

to_c_str(m, s) ==
    IF \E i \in 1..Len(s) : s[i] = NUL
    THEN [ok |-> FALSE, m |-> m, ptr |-> Null]
    ELSE [ok |-> TRUE, m |-> Alloc(m, "cstr", s \o <<NUL>>, Len(s) + 1),
          ptr |-> NewAddr(m)]

free_cstring(m, p) ==
    IF p = Null THEN m ELSE Dealloc(m, p, StrLen(m.cells[p].data) + 1)

\* Vec::ext_into_raw_parts: (pointer, length, capacity)
ext_into_raw_parts(vec) ==
    IF vec.len = 0 THEN <<Null, 0, 0>> ELSE <<vec.ptr, vec.len, vec.cap>>

---------------------------------------------------------------------------
(* Shared pieces of the two projections *)

\* .unwrap_or((std::ptr::null_mut(), 0, 0))
NullPartsDangling == <<Dangling, 0, 0>>
NullParts == <<Null, 0, 0>>

\* collect(): the next projected item goes into the next slot of the buffer
PushSlotFront(data, x) == <<x>> \o data
PushSlot(data, x) == Append(data, x)

WriteSlot(m, buf, x) == [m EXCEPT !.cells[buf].data = PushSlot(@, x)]

\* Vec::from_raw_parts(ptr, len, cap): the len elements of the buffer
FromRawParts(m, ptr, len) == SubSeq(m.cells[ptr].data, 1, len)

\* opt.as_ref().map(|s| to_c_str(s).unwrap()).unwrap_or(std::ptr::null_mut())
OptCStr(m, o) ==
    IF IsSome(o) THEN to_c_str(m, Unwrap(o))
    ELSE [ok |-> TRUE, m |-> m, ptr |-> Null]

\* a panic leaves the heap as unwinding left it and produces no value
Panic(m) == [ok |-> FALSE, m |-> m]
Ok(m) == [ok |-> TRUE, m |-> m]

---------------------------------------------------------------------------
(* RTCIceServer -> RawRTCIceServer *)

RTCIceServers ==
    [credential : OptTexts, username : OptTexts,
     urls : {None} \cup {Some(v) : v \in SeqsUpTo(Texts, MaxUrls)}]

\* v.iter().map(|s| to_c_str(s).unwrap()): the urls from the i-th on, each
\* converted and written to the buffer; r is the conversion of the i-th
RECURSIVE MapUrls(_, _, _, _)
RECURSIVE MapUrl(_, _, _, _)
MapUrl(r, v, i, buf) ==
    IF ~r.ok THEN Panic(r.m)
    ELSE MapUrls(WriteSlot(r.m, buf, r.ptr), v, i + 1, buf)
MapUrls(m, v, i, buf) ==
    IF i > Len(v) THEN Ok(m) ELSE MapUrl(to_c_str(m, v[i]), v, i, buf)

\* the Vec<*const c_char> collect() ends with; when a conversion panicked,
\* unwinding drops the partial Vec: its buffer only, raw pointers have no
\* destructor
CollectedUrls(r, buf, n) ==
    IF r.ok THEN [ok |-> TRUE, m |-> r.m, vec |-> [ptr |-> buf, len |-> n, cap |-> n]]
    ELSE Panic(Dealloc(r.m, buf, n))

\* .collect::<Vec<*const c_char>>()
CollectUrls(m, v) ==
    IF Len(v) = 0
    THEN [ok |-> TRUE, m |-> m, vec |-> [ptr |-> Dangling, len |-> 0, cap |-> 0]]
    ELSE CollectedUrls(MapUrls(Alloc(m, "urls", <<>>, Len(v)), v, 1, NewAddr(m)),
                       NewAddr(m), Len(v))

\* .ext_into_raw_parts() of the collected Vec
IntoParts(c) ==
    IF c.ok THEN [ok |-> TRUE, m |-> c.m, parts |-> ext_into_raw_parts(c.vec)]
    ELSE Panic(c.m)

\* let (urls, urls_size, urls_capacity) = ...
IceServerUrls(m, s) ==
    IF IsSome(s.urls) THEN IntoParts(CollectUrls(m, Unwrap(s.urls)))
    ELSE [ok |-> TRUE, m |-> m, parts |-> NullParts]

\* the struct literal: credential, then username, then the urls triple
IceServerUsername(u, c, n) ==
    IF ~n.ok THEN Panic(n.m)
    ELSE [ok |-> TRUE, m |-> n.m,
          val |-> [credential |-> c.ptr,
                   urls |-> u.parts[1],
                   urls_size |-> u.parts[2],
                   urls_capacity |-> u.parts[3],
                   username |-> n.ptr]]

IceServerCredential(s, u, c) ==
    IF ~c.ok THEN Panic(c.m)
    ELSE IceServerUsername(u, c, OptCStr(c.m, s.username))

IceServerFields(s, u) ==
    IF ~u.ok THEN Panic(u.m)
    ELSE IceServerCredential(s, u, OptCStr(u.m, s.credential))

\* impl Into<RawRTCIceServer> for &RTCIceServer
IceServerInto(m, s) == IceServerFields(s, IceServerUrls(m, s))

RECURSIVE FreeEachUrl(_, _, _)
FreeEachUrl(m, elems, i) ==
    IF i > Len(elems) THEN m
    ELSE FreeEachUrl(free_cstring(m, elems[i]), elems, i + 1)

\* for url in Vec::from_raw_parts(urls, urls_size, urls_capacity) { free }
\* and, the loop over, the drop of the vector's buffer
FreeUrlsSkipped(m, raw) == Dealloc(m, raw.urls, raw.urls_capacity)
FreeUrls(m, raw) ==
    Dealloc(FreeEachUrl(m, FromRawParts(m, raw.urls, raw.urls_size), 1),
            raw.urls, raw.urls_capacity)

\* if !self.urls.is_null() { ... }
DropUrls(m, raw) == IF raw.urls # Null THEN FreeUrls(m, raw) ELSE m

\* impl Drop for RawRTCIceServer
DropRawRTCIceServer(m, raw) ==
    DropUrls(free_cstring(free_cstring(m, raw.credential), raw.username), raw)

---------------------------------------------------------------------------
(* The policy enums (#[repr(i32)]) *)

\* the variants in declaration order; the first carries an explicit
\* discriminant, each later one is its predecessor's plus one
BalancedDiscriminant == 1
IceNoneDiscriminant == 1
NegotiateDiscriminant == 1

BundelPolicy ==
    [variants |-> <<"Balanced", "MaxCompat", "MaxBundle">>,
     first |-> BalancedDiscriminant]
IceTransportPolicy ==
    [variants |-> <<"None", "Relay", "Public", "All">>,
     first |-> IceNoneDiscriminant]
RtcpMuxPolicy ==
    [variants |-> <<"Negotiate", "Require">>, first |-> NegotiateDiscriminant]

Variants(enum) == {enum.variants[i] : i \in 1..Len(enum.variants)}
OptOf(S) == {None} \cup {Some(x) : x \in S}

Position(enum, v) == CHOOSE i \in 1..Len(enum.variants) : enum.variants[i] = v

\* `variant as c_int`
AsCIntImplicit(enum, v) == Position(enum, v) - 1
AsCInt(enum, v) == enum.first + Position(enum, v) - 1

\* opt.map(|i| i as c_int).unwrap_or(0)
PolicyCode(enum, o) == IF IsSome(o) THEN AsCInt(enum, Unwrap(o)) ELSE 0

---------------------------------------------------------------------------
(* RTCConfiguration -> RawRTCPeerConnectionConfigure *)

\* #[derive(Default)]
DefaultIceServer == [credential |-> None, username |-> None, urls |-> None]

\* the ice servers configurations are built from
SampleServers ==
    { DefaultIceServer,
      [credential |-> Some(<<98>>), username |-> Some(<<97>>),
       urls |-> Some(<< <<97>>, <<98>> >>)],
      [credential |-> None, username |-> None, urls |-> Some(<<>>)],
      [credential |-> None, username |-> None,
       urls |-> Some(<< <<97>>, <<97, NUL>> >>)],
      [credential |-> Some(<<97>>), username |-> Some(<<97, NUL>>),
       urls |-> Some(<< <<98>> >>)] }

\* values of ice_candidate_pool_size (u8)
PoolSizes == {0, 255}

RECURSIVE DropEachServer(_, _, _)
DropEachServer(m, elems, i) ==
    IF i > Len(elems) THEN m
    ELSE DropEachServer(DropRawRTCIceServer(m, elems[i]), elems, i + 1)

\* drop of a Vec<RawRTCIceServer>: the elements in order, then the buffer
DropServerVec(m, ptr, len, cap) ==
    Dealloc(DropEachServer(m, FromRawParts(m, ptr, len), 1), ptr, cap)

\* i.iter().map(|s| s.into()): the servers from the i-th on, each projected
\* and written to the buffer; r is the projection of the i-th
RECURSIVE MapServers(_, _, _, _)
RECURSIVE MapServer(_, _, _, _)
MapServer(r, v, i, buf) ==
    IF ~r.ok THEN Panic(r.m)
    ELSE MapServers(WriteSlot(r.m, buf, r.val), v, i + 1, buf)
MapServers(m, v, i, buf) ==
    IF i > Len(v) THEN Ok(m) ELSE MapServer(IceServerInto(m, v[i]), v, i, buf)

\* the Vec<RawRTCIceServer> collect() ends with; when a projection panicked,
\* unwinding drops the partial Vec: the mirrors written so far run their
\* destructor, then the buffer goes
CollectedServers(r, buf, n) ==
    IF r.ok THEN [ok |-> TRUE, m |-> r.m, vec |-> [ptr |-> buf, len |-> n, cap |-> n]]
    ELSE Panic(DropServerVec(r.m, buf, Len(r.m.cells[buf].data), n))

\* .collect::<Vec<RawRTCIceServer>>()
CollectServers(m, v) ==
    IF Len(v) = 0
    THEN [ok |-> TRUE, m |-> m, vec |-> [ptr |-> Dangling, len |-> 0, cap |-> 0]]
    ELSE CollectedServers(MapServers(Alloc(m, "servers", <<>>, Len(v)), v, 1, NewAddr(m)),
                          NewAddr(m), Len(v))

\* let (ice_servers, ice_servers_size, ice_servers_capacity) = ...
ConfigurationServers(m, c) ==
    IF IsSome(c.ice_servers) THEN IntoParts(CollectServers(m, Unwrap(c.ice_servers)))
    ELSE [ok |-> TRUE, m |-> m, parts |-> NullParts]

\* self.ice_candidate_pool_size.unwrap_or(0) as c_int
PoolSize(o) == IF IsSome(o) THEN Unwrap(o) ELSE 0

\* the struct literal
ConfigurationIdentity(c, s, p) ==
    IF ~p.ok THEN Panic(p.m)
    ELSE [ok |-> TRUE, m |-> p.m,
          val |-> [bundle_policy |-> PolicyCode(BundelPolicy, c.bundle_policy),
                   ice_transport_policy |->
                       PolicyCode(IceTransportPolicy, c.ice_transport_policy),
                   peer_identity |-> p.ptr,
                   rtcp_mux_policy |-> PolicyCode(RtcpMuxPolicy, c.rtcp_mux_policy),
                   ice_servers |-> s.parts[1],
                   ice_servers_size |-> s.parts[2],
                   ice_servers_capacity |-> s.parts[3],
                   ice_candidate_pool_size |-> PoolSize(c.ice_candidate_pool_size)]]

ConfigurationFields(c, s) ==
    IF ~s.ok THEN Panic(s.m)
    ELSE ConfigurationIdentity(c, s, OptCStr(s.m, c.peer_identity))

\* impl Into<RawRTCPeerConnectionConfigure> for &RTCConfiguration
ConfigurationInto(m, c) == ConfigurationFields(c, ConfigurationServers(m, c))

\* if !self.ice_servers.is_null() { let _ = Vec::from_raw_parts(...); }
DropServers(m, raw) ==
    IF raw.ice_servers # Null
    THEN DropServerVec(m, raw.ice_servers, raw.ice_servers_size, raw.ice_servers_capacity)
    ELSE m

\* impl Drop for RawRTCPeerConnectionConfigure
DropRawConfiguration(m, raw) == DropServers(free_cstring(m, raw.peer_identity), raw)

---------------------------------------------------------------------------
(* (&str, &str) -> RawParameter *)

ParameterValue(k, v) ==
    IF ~v.ok THEN Panic(v.m)
    ELSE [ok |-> TRUE, m |-> v.m, val |-> [key |-> k.ptr, value |-> v.ptr]]

ParameterKey(kv, k) ==
    IF ~k.ok THEN Panic(k.m) ELSE ParameterValue(k, to_c_str(k.m, kv[2]))

\* impl From<(&str, &str)> for RawParameter
ParameterFrom(m, kv) == ParameterKey(kv, to_c_str(m, kv[1]))

\* RawParameter has no Drop impl: destroying one runs no code
DropRawParameter(m, raw) == m

---------------------------------------------------------------------------
(* RTCConfiguration and its cached mirror *)

\* #[derive(Default)]: every field None, raw_ptr None
DefaultConfiguration ==
    [bundle_policy |-> None, ice_transport_policy |-> None, peer_identity |-> None,
     rtcp_mux_policy |-> None, ice_servers |-> None, ice_candidate_pool_size |-> None,
     raw_ptr |-> None]

RTCConfigurations ==
    [bundle_policy : OptOf(Variants(BundelPolicy)),
     ice_transport_policy : OptOf(Variants(IceTransportPolicy)),
     peer_identity : OptTexts,
     rtcp_mux_policy : OptOf(Variants(RtcpMuxPolicy)),
     ice_servers : {None} \cup {Some(v) : v \in SeqsUpTo(SampleServers, MaxServers)},
     ice_candidate_pool_size : OptOf(PoolSizes),
     raw_ptr : {None}]

\* Box::into_raw(Box::new(mirror))
BoxIntoRaw(m, val) == Alloc(m, "box", <<val>>, 1)

\* RTCConfiguration::get_raw: the heap, the object and the pointer returned
\* let raw = Box::into_raw(Box::new(self.into())); raw_ptr = Some(raw); raw
StoreRaw(c, r) ==
    IF ~r.ok THEN [ok |-> FALSE, m |-> r.m, c |-> c, ret |-> Null]
    ELSE [ok |-> TRUE, m |-> BoxIntoRaw(r.m, r.val),
          c |-> [c EXCEPT !.raw_ptr = Some(NewAddr(r.m))],
          ret |-> NewAddr(r.m)]

get_raw_uncached(m, c) == StoreRaw(c, ConfigurationInto(m, c))
get_raw(m, c) ==
    IF IsSome(c.raw_ptr)
    THEN [ok |-> TRUE, m |-> m, c |-> c, ret |-> Unwrap(c.raw_ptr)]
    ELSE StoreRaw(c, ConfigurationInto(m, c))

\* #[derive(Clone)]: every field cloned; a raw pointer clones to itself
Clone(c) == c

\* drop(ptr) of a `*const RawRTCPeerConnectionConfigure`: a raw pointer is
\* Copy and has no destructor
DropRawPtr(m, ptr) == m

\* impl Drop for RTCConfiguration
DropConfiguration(m, c) ==
    IF IsSome(c.raw_ptr) THEN DropRawPtr(m, Unwrap(c.raw_ptr)) ELSE m

---------------------------------------------------------------------------
(* Projection and release of single values *)

Subjects ==
    {[kind |-> "server", val |-> s] : s \in RTCIceServers}
    \cup {[kind |-> "configuration", val |-> c] : c \in RTCConfigurations}
    \cup {[kind |-> "parameter", val |-> kv] : kv \in Texts \X Texts}

Slots == 1..MaxConfigs
Threads == {1, 2}

NoObjects == [c \in Slots |-> [st |-> "absent", v |-> DefaultConfiguration]]
NoCalls == [c \in Slots |-> <<>>]
NoThreads == [t \in Threads |-> "unused"]
NoLocals == [t \in Threads |-> Null]

InitProj ==
    /\ heap = EmptyHeap
    /\ subject \in Subjects
    /\ phase = "input"
    /\ out = None
    /\ cfgs = NoObjects
    /\ rets = NoCalls
    /\ pc = NoThreads
    /\ local = NoLocals

Projected(r) ==
    /\ heap' = r.m
    /\ phase' = IF r.ok THEN "projected" ELSE "panicked"
    /\ out' = IF r.ok THEN r.val ELSE None
    /\ UNCHANGED <<subject, cfgs, rets, pc, local>>

Released(m) ==
    /\ heap' = m
    /\ phase' = "released"
    /\ UNCHANGED <<subject, out, cfgs, rets, pc, local>>

ProjectIceServer ==
    /\ subject.kind = "server" /\ phase = "input"
    /\ Projected(IceServerInto(heap, subject.val))

ReleaseIceServer ==
    /\ subject.kind = "server" /\ phase = "projected"
    /\ Released(DropRawRTCIceServer(heap, out))

ProjectConfiguration ==
    /\ subject.kind = "configuration" /\ phase = "input"
    /\ Projected(ConfigurationInto(heap, subject.val))

ReleaseConfiguration ==
    /\ subject.kind = "configuration" /\ phase = "projected"
    /\ Released(DropRawConfiguration(heap, out))

ConvertParameter ==
    /\ subject.kind = "parameter" /\ phase = "input"
    /\ Projected(ParameterFrom(heap, subject.val))

DestroyParameter ==
    /\ subject.kind = "parameter" /\ phase = "projected"
    /\ Released(DropRawParameter(heap, out))

NextProj ==
    \/ ProjectIceServer
    \/ ReleaseIceServer
    \/ ProjectConfiguration
    \/ ReleaseConfiguration
    \/ ConvertParameter
    \/ DestroyParameter

SpecProj == InitProj /\ [][NextProj]_vars

---------------------------------------------------------------------------
(* The life of RTCConfiguration objects, one caller *)

NoSubject == [kind |-> "none", val |-> None]

\* values the public fields are assigned
AssignedPolicies == OptOf(Variants(BundelPolicy))
AssignedIdentities == {None, Some(<<97>>), Some(<<97, NUL>>)}
AssignedServers == {None, Some(<< [credential |-> Some(<<98>>), username |-> None,
                                   urls |-> Some(<< <<97>> >>)] >>)}

Init ==
    /\ heap = EmptyHeap
    /\ subject = NoSubject
    /\ phase = "input"
    /\ out = None
    /\ cfgs = NoObjects
    /\ rets = NoCalls
    /\ pc = NoThreads
    /\ local = NoLocals

Quiet == UNCHANGED <<subject, phase, out, pc, local>>

\* RTCConfiguration::default()
New(c) ==
    /\ cfgs[c].st = "absent"
    /\ cfgs' = [cfgs EXCEPT ![c] = [st |-> "live", v |-> DefaultConfiguration]]
    /\ UNCHANGED <<heap, rets>>
    /\ Quiet

\* config.bundle_policy = o
SetBundlePolicy(c, o) ==
    /\ cfgs[c].st = "live"
    /\ cfgs' = [cfgs EXCEPT ![c].v.bundle_policy = o]
    /\ UNCHANGED <<heap, rets>>
    /\ Quiet

\* config.peer_identity = o
SetPeerIdentity(c, o) ==
    /\ cfgs[c].st = "live"
    /\ cfgs' = [cfgs EXCEPT ![c].v.peer_identity = o]
    /\ UNCHANGED <<heap, rets>>
    /\ Quiet

\* config.ice_servers = o
SetIceServers(c, o) ==
    /\ cfgs[c].st = "live"
    /\ cfgs' = [cfgs EXCEPT ![c].v.ice_servers = o]
    /\ UNCHANGED <<heap, rets>>
    /\ Quiet

Returned(c, r) ==
    /\ heap' = r.m
    /\ cfgs' = [cfgs EXCEPT ![c].v = r.c]
    /\ rets' = [rets EXCEPT ![c] = Append(@, IF r.ok THEN Some(r.ret) ELSE None)]

\* config.get_raw(); a call that panics returns nothing
GetRaw(c) ==
    /\ cfgs[c].st = "live"
    /\ Len(rets[c]) < MaxCalls
    /\ Returned(c, get_raw(heap, cfgs[c].v))
    /\ Quiet

\* let d = c.clone()
CloneInto(c, d) ==
    /\ cfgs[c].st = "live"
    /\ cfgs[d].st = "absent"
    /\ cfgs' = [cfgs EXCEPT ![d] = [st |-> "live", v |-> Clone(cfgs[c].v)]]
    /\ UNCHANGED <<heap, rets>>
    /\ Quiet

\* the object goes out of scope
Destroy(c) ==
    /\ cfgs[c].st = "live"
    /\ heap' = DropConfiguration(heap, cfgs[c].v)
    /\ cfgs' = [cfgs EXCEPT ![c] =
                    [st |-> "dropped",
                     v |-> [DefaultConfiguration EXCEPT !.raw_ptr = cfgs[c].v.raw_ptr]]]
    /\ UNCHANGED rets
    /\ Quiet

Next ==
    \/ \E c \in Slots : New(c)
    \/ \E c \in Slots, o \in AssignedPolicies : SetBundlePolicy(c, o)
    \/ \E c \in Slots, o \in AssignedIdentities : SetPeerIdentity(c, o)
    \/ \E c \in Slots : GetRaw(c)
    \/ \E c, d \in Slots : CloneInto(c, d)
    \/ \E c \in Slots : Destroy(c)

Spec == Init /\ [][Next]_vars

---------------------------------------------------------------------------
(* One RTCConfiguration, its fields assigned and get_raw called *)

InitCache ==
    /\ heap = EmptyHeap
    /\ subject = NoSubject
    /\ phase = "input"
    /\ out = None
    /\ cfgs = [NoObjects EXCEPT ![1] = [st |-> "live", v |-> DefaultConfiguration]]
    /\ rets = NoCalls
    /\ pc = NoThreads
    /\ local = NoLocals

NextCache ==
    \/ \E o \in AssignedPolicies : SetBundlePolicy(1, o)
    \/ \E o \in AssignedIdentities : SetPeerIdentity(1, o)
    \/ \E o \in AssignedServers : SetIceServers(1, o)
    \/ GetRaw(1)

SpecCache == InitCache /\ [][NextCache]_vars

---------------------------------------------------------------------------
(* Two threads calling get_raw on one shared, unprojected RTCConfiguration *)

SharedConfigurations ==
    {[DefaultConfiguration EXCEPT !.bundle_policy = b, !.peer_identity = p,
                                  !.ice_servers = s] :
        b \in AssignedPolicies, p \in AssignedIdentities, s \in AssignedServers}

InitConc ==
    /\ heap = EmptyHeap
    /\ subject = NoSubject
    /\ phase = "input"
    /\ out = None
    /\ cfgs \in {[NoObjects EXCEPT ![1] = [st |-> "live", v |-> c]] :
                    c \in SharedConfigurations}
    /\ rets = NoCalls
    /\ pc = [t \in Threads |-> "check"]
    /\ local = NoLocals

\* the values an unsynchronised read of raw_ptr may yield: the one stored
\* last, or the one the object was constructed with
VisibleRawPtr == {cfgs[1].v.raw_ptr, None}

Checked(t, seen) ==
    /\ pc' = [pc EXCEPT ![t] = IF IsSome(seen) THEN "done" ELSE "project"]
    /\ local' = [local EXCEPT ![t] = IF IsSome(seen) THEN Unwrap(seen) ELSE Null]

\* if let Some(ptr) = self.raw_ptr { return ptr; }
Check(t) ==
    /\ pc[t] = "check"
    /\ \E seen \in VisibleRawPtr : Checked(t, seen)
    /\ UNCHANGED <<heap, subject, phase, out, cfgs, rets>>

Boxed(t, r) ==
    /\ heap' = IF r.ok THEN BoxIntoRaw(r.m, r.val) ELSE r.m
    /\ local' = [local EXCEPT ![t] = IF r.ok THEN NewAddr(r.m) ELSE Null]
    /\ pc' = [pc EXCEPT ![t] = IF r.ok THEN "store" ELSE "panicked"]

\* let raw = Box::into_raw(Box::new((self as &Self).into()));
Project(t) ==
    /\ pc[t] = "project"
    /\ Boxed(t, ConfigurationInto(heap, cfgs[1].v))
    /\ UNCHANGED <<subject, phase, out, cfgs, rets>>

\* (*(self as *const Self as *mut Self)).raw_ptr = Some(raw); raw
Store(t) ==
    /\ pc[t] = "store"
    /\ cfgs' = [cfgs EXCEPT ![1].v.raw_ptr = Some(local[t])]
    /\ pc' = [pc EXCEPT ![t] = "done"]
    /\ UNCHANGED <<heap, subject, phase, out, rets, local>>

NextConc ==
    \/ \E t \in Threads : Check(t)
    \/ \E t \in Threads : Project(t)
    \/ \E t \in Threads : Store(t)

SpecConc == InitConc /\ [][NextConc]_vars

---------------------------------------------------------------------------
(* Reading a mirror back *)

Boxes(m) == {a \in Addrs(m) : m.cells[a].kind = "box"}

\* position of address a in the order of deallocations
FreedAt(m, a) == CHOOSE i \in 1..Len(m.log) : m.log[i] = a
FreedBefore(m, a, b) == FreedAt(m, a) < FreedAt(m, b)
FreedOnce(m, a) == m.cells[a].frees = 1 /\ ~m.cells[a].misfreed

Slot(m, buf, i) == m.cells[buf].data[i]
SlotCount(m, buf) == Len(m.cells[buf].data)

\* the native allocations a RawRTCIceServer points to
UrlsOf(m, rs) ==
    IF rs.urls = Null THEN {} ELSE {Slot(m, rs.urls, i) : i \in 1..SlotCount(m, rs.urls)}
OwnedByServer(m, rs) ==
    ({rs.credential, rs.username, rs.urls} \ {Null}) \cup UrlsOf(m, rs)

\* the native allocations a RawRTCPeerConnectionConfigure points to
ServersOf(m, raw) ==
    IF raw.ice_servers = Null THEN {}
    ELSE {Slot(m, raw.ice_servers, i) : i \in 1..SlotCount(m, raw.ice_servers)}
OwnedByConfiguration(m, raw) ==
    ({raw.peer_identity, raw.ice_servers} \ {Null})
    \cup UNION {OwnedByServer(m, rs) : rs \in ServersOf(m, raw)}

\* the native allocations reachable from a boxed mirror, the box included
OwnedByBox(m, p) == {p} \cup OwnedByConfiguration(m, m.cells[p].data[1])

\* pointer p holds the optional text o
HoldsText(m, p, o) ==
    IF IsSome(o) THEN p # Null /\ CStrRead(m, p) = Unwrap(o) ELSE p = Null

\* the (pointer, size, capacity) triple holds n slots, the i-th matching v[i]
HoldsUrls(m, rs, v) ==
    /\ rs.urls # Null
    /\ rs.urls_size = Len(v)
    /\ rs.urls_capacity = Len(v)
    /\ SlotCount(m, rs.urls) = Len(v)
    /\ \A i \in 1..Len(v) :
           Slot(m, rs.urls, i) # Null /\ CStrRead(m, Slot(m, rs.urls, i)) = v[i]

IsEmptySeq(o) == o = None \/ o = Some(<<>>)

\* mirror rs holds what server s holds
MirrorsServer(m, rs, s) ==
    /\ HoldsText(m, rs.credential, s.credential)
    /\ HoldsText(m, rs.username, s.username)
    /\ IF IsEmptySeq(s.urls) THEN rs.urls_size = 0
       ELSE HoldsUrls(m, rs, Unwrap(s.urls))

---------------------------------------------------------------------------
(* C1 *)

\* C1: once an RTCConfiguration on which get_raw has stored a mirror is
\* destroyed, every native allocation reachable from that mirror (the box,
\* peer_identity, the server buffer, the servers' strings and url buffers)
\* has been released exactly once.
C1_DestroyReleasesMirror ==
    \A c \in Slots :
        (cfgs[c].st = "dropped" /\ IsSome(cfgs[c].v.raw_ptr)) =>
            \A a \in OwnedByBox(heap, Unwrap(cfgs[c].v.raw_ptr)) : FreedOnce(heap, a)

---------------------------------------------------------------------------
(* C2 *)

LastRet(c) == rets'[c][Len(rets'[c])]
Called(c) == Len(rets'[c]) > Len(rets[c])

\* C2 as stated: after the first get_raw call the pointer of the one
\* projection is stored, and every call so far has returned it.
C2_FirstCallAlwaysStores ==
    \A c \in Slots :
        Len(rets[c]) >= 1 =>
            /\ IsSome(cfgs[c].v.raw_ptr)
            /\ \A i \in 1..Len(rets[c]) : rets[c][i] = cfgs[c].v.raw_ptr
            /\ Cardinality(Boxes(heap)) = 1

\* C2 as amended: a get_raw call made while raw_ptr is absent performs one
\* struct projection and, unless the projection panics (then nothing is
\* stored, boxed or returned), boxes the mirror, stores its pointer and
\* returns it; a get_raw call made while raw_ptr is present returns that
\* pointer and changes neither the heap nor the object; assigning a field
\* changes neither raw_ptr nor the heap, and no step changes a cell that is
\* already allocated (the mirror keeps the values of its projection).
C2_CacheNeverInvalidated ==
    [][/\ \A c \in Slots :
            /\ (Called(c) /\ IsSome(cfgs[c].v.raw_ptr)) =>
                   /\ LastRet(c) = cfgs[c].v.raw_ptr
                   /\ heap' = heap
                   /\ cfgs' = cfgs
            /\ (Called(c) /\ ~IsSome(cfgs[c].v.raw_ptr)) =>
                   IF LastRet(c) = None
                   THEN /\ cfgs'[c] = cfgs[c]
                        /\ Boxes(heap') = Boxes(heap)
                   ELSE /\ Unwrap(LastRet(c)) \notin Addrs(heap)
                        /\ Boxes(heap') = Boxes(heap) \cup {Unwrap(LastRet(c))}
                        /\ cfgs'[c].v = [cfgs[c].v EXCEPT !.raw_ptr = LastRet(c)]
       /\ rets' = rets =>
              /\ \A c \in Slots : cfgs'[c].v.raw_ptr = cfgs[c].v.raw_ptr
              /\ heap' = heap
       /\ \A a \in Addrs(heap) : heap'.cells[a] = heap.cells[a]
      ]_vars

\* two calls have returned the same pointer and the bundle_policy assigned
\* since is not the one the mirror holds
C2_Witness ==
    /\ Len(rets[1]) = 2
    /\ IsSome(rets[1][1])
    /\ rets[1][2] = rets[1][1]
    /\ cfgs[1].v.bundle_policy = Some("MaxBundle")
    /\ heap.cells[Unwrap(rets[1][1])].data[1].bundle_policy = 0

---------------------------------------------------------------------------
(* C3 *)

\* C3: no two live RTCConfiguration objects hold the same mirror pointer in
\* raw_ptr.
C3_MirrorNeverShared ==
    \A c, d \in Slots :
        (c # d /\ cfgs[c].st = "live" /\ cfgs[d].st = "live"
               /\ IsSome(cfgs[c].v.raw_ptr)) =>
            cfgs[c].v.raw_ptr # cfgs[d].v.raw_ptr

---------------------------------------------------------------------------
(* C4 *)

\* C4: when a projection fails on a text with an embedded NUL byte, no
\* mirror is produced and nothing the attempt allocated is still live.
C4_FailedProjectionLeavesNothing ==
    phase = "panicked" => (out = None /\ Live(heap) = {})

---------------------------------------------------------------------------
(* C5 *)

\* C5: a sequence field that is None or Some of an empty vector projects to
\* (null, 0, 0), and no projection yields a non-null pointer with size 0;
\* for urls of an RTCIceServer (also of each server inside a configuration)
\* and for ice_servers of an RTCConfiguration.
C5_ServerEmpty(rs, s) ==
    /\ IsEmptySeq(s.urls) =>
           (rs.urls = Null /\ rs.urls_size = 0 /\ rs.urls_capacity = 0)
    /\ rs.urls_size = 0 => rs.urls = Null

---------------------------------------------------------------------------
(* C6 *)

C6_ServerReleased(m, rs) ==
    /\ \A a \in OwnedByServer(m, rs) : FreedOnce(m, a)
    /\ \A u \in UrlsOf(m, rs) : FreedBefore(m, u, rs.urls)
    /\ rs.urls # Null =>
           /\ rs.urls_size = SlotCount(m, rs.urls)
           /\ \A i, j \in 1..SlotCount(m, rs.urls) :
                  i < j => FreedBefore(m, Slot(m, rs.urls, i), Slot(m, rs.urls, j))
           /\ \A a \in {rs.credential, rs.username} \ {Null} :
                  FreedBefore(m, a, rs.urls)

\* C6: dropping a projected RawRTCPeerConnectionConfigure (and likewise a
\* RawRTCIceServer) deallocates every allocation it owns exactly once, with
\* the size it was allocated with, children before parents: peer_identity
\* first, each server's strings before its url buffer and all of them
\* before the server buffer, which goes last; a null pointer causes no
\* deallocation, so there are as many deallocations as allocations.
C6_ReleaseOnceChildrenFirst ==
    phase = "released" =>
        /\ subject.kind = "server" =>
               /\ C6_ServerReleased(heap, out)
               /\ Len(heap.log) = Cardinality(OwnedByServer(heap, out))
               /\ Live(heap) = {}
        /\ subject.kind = "configuration" =>
               /\ \A a \in OwnedByConfiguration(heap, out) : FreedOnce(heap, a)
               /\ Len(heap.log) = Cardinality(OwnedByConfiguration(heap, out))
               /\ Live(heap) = {}
               /\ out.peer_identity # Null => FreedAt(heap, out.peer_identity) = 1
               /\ out.ice_servers # Null =>
                      /\ out.ice_servers_size = SlotCount(heap, out.ice_servers)
                      /\ FreedAt(heap, out.ice_servers) = Len(heap.log)
                      /\ \A rs \in ServersOf(heap, out) : C6_ServerReleased(heap, rs)
                      /\ \A i, j \in 1..SlotCount(heap, out.ice_servers) :
                             i < j =>
                                 \A a \in OwnedByServer(heap, Slot(heap, out.ice_servers, i)),
                                    b \in OwnedByServer(heap, Slot(heap, out.ice_servers, j)) :
                                     FreedBefore(heap, a, b)

\* a mirror with peer_identity and two servers, one with two urls, released
C6_Witness ==
    /\ phase = "released"
    /\ subject.kind = "configuration"
    /\ out.peer_identity # Null
    /\ out.ice_servers_size = 2
    /\ \E rs \in ServersOf(heap, out) : rs.urls_size = 2 /\ rs.credential # Null

---------------------------------------------------------------------------
(* C7 *)

\* C7: once a RawParameter converted from a (key, value) pair is destroyed,
\* its key and value strings are deallocated: no native string is live.
C7_ParameterStringsReleased ==
    (subject.kind = "parameter" /\ phase = "released") => Live(heap) = {}

---------------------------------------------------------------------------
(* C8 *)

\* C8: N >= 1 urls project to urls_size = urls_capacity = N with the i-th
\* slot holding the native copy of the i-th url; N >= 1 ice servers project
\* to ice_servers_size = ice_servers_capacity = N with the i-th slot the
\* mirror of the i-th server.
C8_OrderPreserved ==
    phase = "projected" =>
        /\ (subject.kind = "server" /\ ~IsEmptySeq(subject.val.urls)) =>
               HoldsUrls(heap, out, Unwrap(subject.val.urls))
        /\ (subject.kind = "configuration" /\ ~IsEmptySeq(subject.val.ice_servers)) =>
               /\ out.ice_servers # Null
               /\ out.ice_servers_size = Len(Unwrap(subject.val.ice_servers))
               /\ out.ice_servers_capacity = Len(Unwrap(subject.val.ice_servers))
               /\ SlotCount(heap, out.ice_servers) = Len(Unwrap(subject.val.ice_servers))
               /\ \A i \in 1..Len(Unwrap(subject.val.ice_servers)) :
                      MirrorsServer(heap, Slot(heap, out.ice_servers, i),
                                    Unwrap(subject.val.ice_servers)[i])

\* two different servers, the first with two different urls, are projected
C8_Witness ==
    /\ phase = "projected"
    /\ subject.kind = "configuration"
    /\ out.ice_servers_size = 2
    /\ Slot(heap, out.ice_servers, 1).urls_size = 2
    /\ Slot(heap, out.ice_servers, 2).urls_size = 0
    /\ Unwrap(subject.val.ice_servers)[1].urls = Some(<< <<97>>, <<98>> >>)

---------------------------------------------------------------------------
(* C9 *)

\* C9: with every optional field None the mirror has the three policies 0,
\* the pool size 0, peer_identity null and ice_servers null; Some(variant)
\* projects to the variant's code (Balanced 1, MaxCompat 2, MaxBundle 3;
\* None 1, Relay 2, Public 3, All 4; Negotiate 1, Require 2), so a policy
\* of the mirror is 0 exactly when the managed field is None.
C9_SentinelsAndCodes ==
    (phase = "projected" /\ subject.kind = "configuration") =>
        /\ (subject.val = DefaultConfiguration) =>
               out = [bundle_policy |-> 0, ice_transport_policy |-> 0,
                      peer_identity |-> 0, rtcp_mux_policy |-> 0,
                      ice_servers |-> 0, ice_servers_size |-> 0,
                      ice_servers_capacity |-> 0, ice_candidate_pool_size |-> 0]
        /\ out.bundle_policy = 0 <=> subject.val.bundle_policy = None
        /\ out.ice_transport_policy = 0 <=> subject.val.ice_transport_policy = None
        /\ out.rtcp_mux_policy = 0 <=> subject.val.rtcp_mux_policy = None
        /\ subject.val.bundle_policy = Some("Balanced") => out.bundle_policy = 1
        /\ subject.val.bundle_policy = Some("MaxCompat") => out.bundle_policy = 2
        /\ subject.val.bundle_policy = Some("MaxBundle") => out.bundle_policy = 3
        /\ subject.val.ice_transport_policy = Some("None") => out.ice_transport_policy = 1
        /\ subject.val.ice_transport_policy = Some("Relay") => out.ice_transport_policy = 2
        /\ subject.val.ice_transport_policy = Some("Public") => out.ice_transport_policy = 3
        /\ subject.val.ice_transport_policy = Some("All") => out.ice_transport_policy = 4
        /\ subject.val.rtcp_mux_policy = Some("Negotiate") => out.rtcp_mux_policy = 1
        /\ subject.val.rtcp_mux_policy = Some("Require") => out.rtcp_mux_policy = 2
        /\ subject.val.ice_candidate_pool_size = None => out.ice_candidate_pool_size = 0
        /\ subject.val.peer_identity = None => out.peer_identity = Null

\* the configuration with every optional field None is projected
C9_Witness ==
    /\ phase = "projected"
    /\ subject.kind = "configuration"
    /\ subject.val = DefaultConfiguration

---------------------------------------------------------------------------
(* C10 *)

\* C10: when both threads have returned from get_raw on the shared object,
\* one projection was boxed, both hold the same pointer, and every boxed
\* mirror is the one raw_ptr refers to.
C10_ConcurrentCallsProjectOnce ==
    (\A t \in Threads : pc[t] = "done") =>
        /\ local[1] = local[2]
        /\ Cardinality(Boxes(heap)) <= 1
        /\ \A b \in Boxes(heap) : cfgs[1].v.raw_ptr = Some(b)

====
